---- MODULE Spec2Model ----
(***************************************************************************)
(* The server module of the arena game (src/server-rust/src/lib.rs): the   *)
(* tables of the store and the reducers init, connect, disconnect,         *)
(* enter_game, update_player_input, spawn_food and move_all_players.       *)
(*                                                                         *)
(* Every reducer invocation is one transaction: one action of the model.   *)
(* An invocation that returns Err leaves the tables as they were and only  *)
(* records its outcome in result.                                          *)
(*                                                                         *)
(* f32 values are kept in fixed point: the integer v stands for v / Q.     *)
(* Square roots and quotients are rounded down to the grid.                *)
(*                                                                         *)
(* Table.iter() promises no row order; the order in which one invocation   *)
(* of move_all_players sees the rows of circle and of entity is chosen     *)
(* nondeterministically.                                                   *)
(*                                                                         *)
(* Circle.last_split_time is written at spawn and read by no reducer; it   *)
(* is not part of the model.                                               *)
(***************************************************************************)
EXTENDS Integers, Sequences, FiniteSets, TLC

\* ---------------------------------------------------------------- bounds

\* fixed-point scale: the integer v stands for the f32 value v / Q
Q == 20
\* identities that may connect are 1..NumIdentities
NumIdentities == 2
\* the entity auto-increment is not advanced past MaxEntityId
MaxEntityId == 3
\* the food target the model runs with (TARGET_FOOD_COUNT is 600 in the source)
MaxFood == 1
\* enter_game is not called while MaxCircles circles are in the arena
MaxCircles == 2
\* move_all_players is invoked at most MaxTicks times
MaxTicks == 1

\* ------------------------------------------------------ program constants

FOOD_MASS_MIN == 2
FOOD_MASS_MAX == 4
TARGET_FOOD_COUNT == MaxFood
START_PLAYER_MASS == 15
START_PLAYER_SPEED == 10
\* MINIMUM_SAFE_MASS_RATIO = 0.85 as the quotient SAFE_RATIO_NUM / SAFE_RATIO_DEN
SAFE_RATIO_NUM == 85
SAFE_RATIO_DEN == 100
\* Config.world_size as written by init
WORLD_SIZE == 1000

Identities == 1..NumIdentities
Names == {"n1"}
\* the masses of the circles in the arenas SpecArena starts from: START_PLAYER_MASS
\* plus what a circle has absorbed so far
ArenaMasses == {17, 20, 50, 100}
\* the largest mass an entity of the model can hold: mass is only moved between
\* entities, and each starts with at most 100
MaxMass == MaxEntityId * 100

\* ------------------------------------------------------------ fixed point

RECURSIVE SqrtSearch(_, _, _)
\* the largest r in lo..hi with r * r <= n
SqrtSearch(n, lo, hi) ==
  IF lo >= hi THEN lo
  ELSE IF ((lo + hi + 1) \div 2) * ((lo + hi + 1) \div 2) <= n
       THEN SqrtSearch(n, (lo + hi + 1) \div 2, hi)
       ELSE SqrtSearch(n, lo, ((lo + hi + 1) \div 2) - 1)

\* floor of the square root of n (46340 is the largest root of a 32-bit integer)
ISqrt(n) == SqrtSearch(n, 0, IF n < 46340 THEN n ELSE 46340)

\* the mass whose radius is half the world: the heaviest circle whose clamp bounds
\* radius and world_size - radius are in order
HeavyMass == (WORLD_SIZE \div 2) * (WORLD_SIZE \div 2)

\* the masses of the model: those of a young arena, and those of an arena in which
\* one circle has grown to HeavyMass and absorbs on
Masses == (0..MaxMass) \cup (HeavyMass..(HeavyMass + MaxMass))

\* the two functions of mass below, tabulated for the masses of the model
RadiusTable == [m \in Masses |-> ISqrt(m * Q * Q)]

SpeedTable ==
  [m \in Masses |->
     (2 * START_PLAYER_SPEED * Q * Q) \div (Q + ISqrt((m * Q * Q) \div START_PLAYER_MASS))]

\* (mass as f32).sqrt()
mass_to_radius(mass) == RadiusTable[mass]

\* 2.0 * START_PLAYER_SPEED / (1.0 + (mass / START_PLAYER_MASS).sqrt())
mass_to_max_move_speed(mass) == SpeedTable[mass]

\* f32::clamp (min <= max is checked by the caller of the model)
Clamp(v, lo, hi) == IF v < lo THEN lo ELSE IF v > hi THEN hi ELSE v

Max(a, b) == IF a >= b THEN a ELSE b

Vec(x, y) == [x |-> x, y |-> y]

\* DbVector2 * f32
VecScale(v, s) == Vec((v.x * s) \div Q, (v.y * s) \div Q)

\* DbVector2 + DbVector2
VecAdd(a, b) == Vec(a.x + b.x, a.y + b.y)

\* DbVector2::magnitude
magnitude(v) == ISqrt(v.x * v.x + v.y * v.y)

\* DbVector2::normalized; the zero vector stays zero-length
normalized(v) ==
  IF magnitude(v) = 0 THEN Vec(0, 0)
  ELSE Vec((v.x * Q) \div magnitude(v), (v.y * Q) \div magnitude(v))

\* the vectors a client sends to update_player_input
InputVectors == {Vec(0 - 2 * Q, 2 * Q)}

\* the values rng.gen_range(lo..hi) is taken to return: the lower end and the
\* sample coordinates inside the half-open range
SampleCoords == {996 * Q}
GenRange(lo, hi) == {c \in {lo} \cup SampleCoords : lo <= c /\ c < hi}

\* the positions two draws x, y from lo..hi are taken to give: both draws alike
GenPosition(lo, hi) == {Vec(c, c) : c \in GenRange(lo, hi)}

\* ----------------------------------------------------------------- state

VARIABLES
  config,                  \* table config: id -> [world_size]
  spawn_food_timer,        \* table spawn_food_timer: set of intervals (ms)
  move_all_players_timer,  \* table move_all_players_timer: set of intervals (ms)
  entity,                  \* table entity: entity_id -> [position, mass]
  entity_seq,              \* auto_inc sequence of entity.entity_id
  circle,                  \* table circle: entity_id -> [player_id, direction, speed]
  food,                    \* table food: set of entity_id
  player,                  \* table player: identity -> [player_id, name]
  logged_out_player,       \* table logged_out_player: identity -> [player_id, name]
  player_seq,              \* auto_inc sequence of player.player_id
  ticks,                   \* number of move_all_players invocations so far
  result,                  \* what the last invocation returned: "ok" or the error
  trace,                   \* what the last move_all_players did, circle by circle
  CONNECTION,              \* client: the OnceLock CONNECTION, 0 while it is not set
  connections,             \* client: the DbConnections built so far, TRUE while open
  in_tree,                 \* client: the GameManager node is in the scene tree
  ticks_msec,              \* client: Time::get_ticks_msec()
  last_movement_send_timestamp,  \* client: field of the local PlayerController
  sends                    \* client: the times (ms) of its update_player_input calls

tables == <<config, spawn_food_timer, move_all_players_timer, entity, entity_seq,
            circle, food, player, logged_out_player, player_seq>>

\* the state of the client
client == <<CONNECTION, connections, in_tree, ticks_msec, last_movement_send_timestamp,
            sends>>

vars == <<config, spawn_food_timer, move_all_players_timer, entity, entity_seq,
          circle, food, player, logged_out_player, player_seq, ticks, result, trace,
          CONNECTION, connections, in_tree, ticks_msec, last_movement_send_timestamp,
          sends>>

Empty == [x \in {} |-> 0]

\* f with the row of key k removed
Remove(f, k) == [x \in DOMAIN f \ {k} |-> f[x]]

\* f with the row r inserted (or replaced) under key k
Put(f, k, r) == [x \in DOMAIN f \cup {k} |-> IF x = k THEN r ELSE f[x]]

\* an invocation that returned Err: the transaction is rolled back
Failed(msg) ==
  /\ result' = msg
  /\ trace' = <<>>
  /\ UNCHANGED <<tables, ticks>>

\* the client before its GameManager enters the scene tree: CONNECTION is an empty
\* OnceLock, last_movement_send_timestamp has the default 0.0
ClientInit ==
  /\ CONNECTION = 0
  /\ connections = <<>>
  /\ in_tree = FALSE
  /\ ticks_msec = 0
  /\ last_movement_send_timestamp = 0
  /\ sends = <<>>

Init ==
  /\ ClientInit
  /\ config = Empty
  /\ spawn_food_timer = {}
  /\ move_all_players_timer = {}
  /\ entity = Empty
  /\ entity_seq = 0
  /\ circle = Empty
  /\ food = {}
  /\ player = Empty
  /\ logged_out_player = Empty
  /\ player_seq = 0
  /\ ticks = 0
  /\ result = "ok"
  /\ trace = <<>>

\* ---------------------------------------------------------------- reducers

\* mutant of init: the config row is written with update semantics
init_upsert ==
  /\ config' = Put(config, 0, [world_size |-> WORLD_SIZE])
  /\ spawn_food_timer' = spawn_food_timer \cup {500}
  /\ move_all_players_timer' = move_all_players_timer \cup {50}
  /\ result' = "ok"
  /\ trace' = <<>>
  /\ UNCHANGED <<entity, entity_seq, circle, food, player, logged_out_player,
                 player_seq, ticks>>

\* init: the config singleton and the two timers
init ==
  IF 0 \in DOMAIN config
  THEN Failed("duplicate key")
  ELSE /\ config' = Put(config, 0, [world_size |-> WORLD_SIZE])
       /\ spawn_food_timer' = spawn_food_timer \cup {500}
       /\ move_all_players_timer' = move_all_players_timer \cup {50}
       /\ result' = "ok"
       /\ trace' = <<>>
       /\ UNCHANGED <<entity, entity_seq, circle, food, player, logged_out_player,
                      player_seq, ticks>>

\* mutant of connect: a new player gets the number of connected players plus one
connect_counts_players(sender) ==
  IF sender \in DOMAIN player
  THEN Failed("duplicate key")
  ELSE IF sender \in DOMAIN logged_out_player
  THEN /\ player' = Put(player, sender, logged_out_player[sender])
       /\ logged_out_player' = Remove(logged_out_player, sender)
       /\ result' = "ok"
       /\ trace' = <<>>
       /\ UNCHANGED <<config, spawn_food_timer, move_all_players_timer, entity,
                      entity_seq, circle, food, player_seq, ticks>>
  ELSE /\ player' = Put(player, sender,
                        [player_id |-> Cardinality(DOMAIN player) + 1, name |-> ""])
       /\ player_seq' = player_seq + 1
       /\ result' = "ok"
       /\ trace' = <<>>
       /\ UNCHANGED <<config, spawn_food_timer, move_all_players_timer, entity,
                      entity_seq, circle, food, logged_out_player, ticks>>

\* mutant of connect: a returning identity gets a new row instead of its old one
connect_as_new_player(sender) ==
  IF sender \in DOMAIN player
  THEN Failed("duplicate key")
  ELSE /\ player' = Put(player, sender, [player_id |-> player_seq + 1, name |-> ""])
       /\ logged_out_player' = Remove(logged_out_player, sender)
       /\ player_seq' = player_seq + 1
       /\ result' = "ok"
       /\ trace' = <<>>
       /\ UNCHANGED <<config, spawn_food_timer, move_all_players_timer, entity,
                      entity_seq, circle, food, ticks>>

\* mutant of connect: the logged-out row is left behind
connect_keeps_logged_out_row(sender) ==
  IF sender \in DOMAIN player
  THEN Failed("duplicate key")
  ELSE IF sender \in DOMAIN logged_out_player
  THEN /\ player' = Put(player, sender, logged_out_player[sender])
       /\ result' = "ok"
       /\ trace' = <<>>
       /\ UNCHANGED <<config, spawn_food_timer, move_all_players_timer, entity,
                      entity_seq, circle, food, logged_out_player, player_seq, ticks>>
  ELSE /\ player' = Put(player, sender, [player_id |-> player_seq + 1, name |-> ""])
       /\ player_seq' = player_seq + 1
       /\ result' = "ok"
       /\ trace' = <<>>
       /\ UNCHANGED <<config, spawn_food_timer, move_all_players_timer, entity,
                      entity_seq, circle, food, logged_out_player, ticks>>

\* connect: restore the logged-out row or insert a new player
connect(sender) ==
  IF sender \in DOMAIN logged_out_player
  THEN IF sender \in DOMAIN player
       THEN Failed("duplicate key")
       ELSE /\ player' = Put(player, sender, logged_out_player[sender])
            /\ logged_out_player' = Remove(logged_out_player, sender)
            /\ result' = "ok"
            /\ trace' = <<>>
            /\ UNCHANGED <<config, spawn_food_timer, move_all_players_timer, entity,
                           entity_seq, circle, food, player_seq, ticks>>
  ELSE IF sender \in DOMAIN player
       THEN Failed("duplicate key")
       ELSE /\ player' = Put(player, sender, [player_id |-> player_seq + 1, name |-> ""])
            /\ player_seq' = player_seq + 1
            /\ result' = "ok"
            /\ trace' = <<>>
            /\ UNCHANGED <<config, spawn_food_timer, move_all_players_timer, entity,
                           entity_seq, circle, food, logged_out_player, ticks>>

\* mutant of CirclesOf: the index filter yields every circle
CirclesOfAnyPlayer(player_id) == DOMAIN circle

\* the rows of circle().player_id().filter(player_id)
CirclesOf(player_id) == {e \in DOMAIN circle : circle[e].player_id = player_id}

\* mutant of disconnect: the circles of the player stay in the arena
disconnect_keeps_circles(sender) ==
  IF sender \notin DOMAIN player
  THEN Failed("Player not found")
  ELSE /\ logged_out_player' = Put(logged_out_player, sender, player[sender])
       /\ player' = Remove(player, sender)
       /\ result' = "ok"
       /\ trace' = <<>>
       /\ UNCHANGED <<config, spawn_food_timer, move_all_players_timer, entity, entity_seq,
                      circle, food, player_seq, ticks>>

\* mutant of disconnect: a caller without a Player row gets Ok
disconnect_absent_ok(sender) ==
  IF sender \notin DOMAIN player
  THEN /\ result' = "ok"
       /\ trace' = <<>>
       /\ UNCHANGED <<tables, ticks>>
  ELSE /\ logged_out_player' = Put(logged_out_player, sender, player[sender])
       /\ player' = Remove(player, sender)
       /\ entity' = [e \in DOMAIN entity \ CirclesOf(player[sender].player_id) |-> entity[e]]
       /\ circle' = [e \in DOMAIN circle \ CirclesOf(player[sender].player_id) |-> circle[e]]
       /\ result' = "ok"
       /\ trace' = <<>>
       /\ UNCHANGED <<config, spawn_food_timer, move_all_players_timer, entity_seq,
                      food, player_seq, ticks>>

\* mutant of disconnect: only the entity rows of the player's circles are deleted
disconnect_deletes_entities_only(sender) ==
  IF sender \notin DOMAIN player
  THEN Failed("Player not found")
  ELSE /\ logged_out_player' = Put(logged_out_player, sender, player[sender])
       /\ player' = Remove(player, sender)
       /\ entity' = [e \in DOMAIN entity \ CirclesOf(player[sender].player_id) |-> entity[e]]
       /\ result' = "ok"
       /\ trace' = <<>>
       /\ UNCHANGED <<config, spawn_food_timer, move_all_players_timer, entity_seq,
                      circle, food, player_seq, ticks>>

\* disconnect: archive the player row, delete the player's circles and their entities
disconnect(sender) ==
  IF sender \notin DOMAIN player
  THEN Failed("Player not found")
  ELSE /\ logged_out_player' = Put(logged_out_player, sender, player[sender])
       /\ player' = Remove(player, sender)
       /\ entity' = [e \in DOMAIN entity \ CirclesOf(player[sender].player_id) |-> entity[e]]
       /\ circle' = [e \in DOMAIN circle \ CirclesOf(player[sender].player_id) |-> circle[e]]
       /\ result' = "ok"
       /\ trace' = <<>>
       /\ UNCHANGED <<config, spawn_food_timer, move_all_players_timer, entity_seq,
                      food, player_seq, ticks>>

\* mutant of spawn_circle_at: the Circle row is not inserted
spawn_circle_at_entity_only(player_id, mass, position) ==
  /\ entity' = Put(entity, entity_seq + 1, [position |-> position, mass |-> mass])
  /\ entity_seq' = entity_seq + 1
  /\ circle' = circle

\* spawn_circle_at: one Entity row and one Circle row with the same entity_id
spawn_circle_at(player_id, mass, position) ==
  /\ entity' = Put(entity, entity_seq + 1, [position |-> position, mass |-> mass])
  /\ entity_seq' = entity_seq + 1
  /\ circle' = Put(circle, entity_seq + 1,
                   [player_id |-> player_id, direction |-> Vec(0, Q), speed |-> 0])

\* mutant of enter_game: the name written before the failed config lookup stays
enter_game_name_persists(sender, name) ==
  /\ sender \in DOMAIN player /\ 0 \in DOMAIN config =>
       entity_seq < MaxEntityId /\ Cardinality(DOMAIN circle) < MaxCircles
  /\ IF sender \notin DOMAIN player
     THEN Failed("Player not found")
     ELSE IF 0 \notin DOMAIN config
     THEN /\ player' = Put(player, sender, [player[sender] EXCEPT !.name = name])
          /\ result' = "Config not found"
          /\ trace' = <<>>
          /\ UNCHANGED <<config, spawn_food_timer, move_all_players_timer, entity,
                         entity_seq, circle, food, logged_out_player, player_seq, ticks>>
     ELSE \E position \in GenPosition(mass_to_radius(START_PLAYER_MASS),
                                       config[0].world_size * Q
                                         - mass_to_radius(START_PLAYER_MASS)) :
            /\ player' = Put(player, sender, [player[sender] EXCEPT !.name = name])
            /\ spawn_circle_at(player[sender].player_id, START_PLAYER_MASS, position)
            /\ result' = "ok"
            /\ trace' = <<>>
            /\ UNCHANGED <<config, spawn_food_timer, move_all_players_timer, food,
                           logged_out_player, player_seq, ticks>>

\* mutant of enter_game: a player that owns a circle gets the name but no new circle
enter_game_first_circle_only(sender, name) ==
  /\ sender \in DOMAIN player /\ 0 \in DOMAIN config =>
       entity_seq < MaxEntityId /\ Cardinality(DOMAIN circle) < MaxCircles
  /\ IF sender \notin DOMAIN player
     THEN Failed("Player not found")
     ELSE IF 0 \notin DOMAIN config
     THEN Failed("Config not found")
     ELSE IF CirclesOf(player[sender].player_id) # {}
     THEN /\ player' = Put(player, sender, [player[sender] EXCEPT !.name = name])
          /\ result' = "ok"
          /\ trace' = <<>>
          /\ UNCHANGED <<config, spawn_food_timer, move_all_players_timer, entity,
                         entity_seq, circle, food, logged_out_player, player_seq, ticks>>
     ELSE \E position \in GenPosition(mass_to_radius(START_PLAYER_MASS),
                                       config[0].world_size * Q
                                         - mass_to_radius(START_PLAYER_MASS)) :
            /\ player' = Put(player, sender, [player[sender] EXCEPT !.name = name])
            /\ spawn_circle_at(player[sender].player_id, START_PLAYER_MASS, position)
            /\ result' = "ok"
            /\ trace' = <<>>
            /\ UNCHANGED <<config, spawn_food_timer, move_all_players_timer, food,
                           logged_out_player, player_seq, ticks>>

\* enter_game: set the name, spawn the initial circle at a random position
enter_game(sender, name) ==
  /\ sender \in DOMAIN player /\ 0 \in DOMAIN config =>
       entity_seq < MaxEntityId /\ Cardinality(DOMAIN circle) < MaxCircles
  /\ IF sender \notin DOMAIN player
     THEN Failed("Player not found")
     ELSE IF 0 \notin DOMAIN config
     THEN Failed("Config not found")
     ELSE \E position \in GenPosition(mass_to_radius(START_PLAYER_MASS),
                                       config[0].world_size * Q
                                         - mass_to_radius(START_PLAYER_MASS)) :
            /\ player' = Put(player, sender, [player[sender] EXCEPT !.name = name])
            /\ spawn_circle_at(player[sender].player_id, START_PLAYER_MASS, position)
            /\ result' = "ok"
            /\ trace' = <<>>
            /\ UNCHANGED <<config, spawn_food_timer, move_all_players_timer, food,
                           logged_out_player, player_seq, ticks>>

\* mutant of update_player_input: the magnitude is stored without the clamp
update_player_input_unclamped(sender, direction) ==
  IF sender \notin DOMAIN player
  THEN Failed("Player not found")
  ELSE /\ circle' = [e \in DOMAIN circle |->
                       IF circle[e].player_id = player[sender].player_id
                       THEN [circle[e] EXCEPT !.direction = normalized(direction),
                                              !.speed = magnitude(direction)]
                       ELSE circle[e]]
       /\ result' = "ok"
       /\ trace' = <<>>
       /\ UNCHANGED <<config, spawn_food_timer, move_all_players_timer, entity,
                      entity_seq, food, player, logged_out_player, player_seq, ticks>>

\* mutant of update_player_input: a caller without a Player row gets Ok
update_player_input_absent_ok(sender, direction) ==
  IF sender \notin DOMAIN player
  THEN /\ result' = "ok"
       /\ trace' = <<>>
       /\ UNCHANGED <<tables, ticks>>
  ELSE /\ circle' = [e \in DOMAIN circle |->
                       IF circle[e].player_id = player[sender].player_id
                       THEN [circle[e] EXCEPT !.direction = normalized(direction),
                                              !.speed = Clamp(magnitude(direction), 0, Q)]
                       ELSE circle[e]]
       /\ result' = "ok"
       /\ trace' = <<>>
       /\ UNCHANGED <<config, spawn_food_timer, move_all_players_timer, entity,
                      entity_seq, food, player, logged_out_player, player_seq, ticks>>

\* mutant of update_player_input: the circles are not filtered by player_id
update_player_input_every_circle(sender, direction) ==
  IF sender \notin DOMAIN player
  THEN Failed("Player not found")
  ELSE /\ circle' = [e \in DOMAIN circle |->
                       [circle[e] EXCEPT !.direction = normalized(direction),
                                         !.speed = Clamp(magnitude(direction), 0, Q)]]
       /\ result' = "ok"
       /\ trace' = <<>>
       /\ UNCHANGED <<config, spawn_food_timer, move_all_players_timer, entity,
                      entity_seq, food, player, logged_out_player, player_seq, ticks>>

\* update_player_input: direction and speed of every circle of the caller
update_player_input(sender, direction) ==
  IF sender \notin DOMAIN player
  THEN Failed("Player not found")
  ELSE /\ circle' = [e \in DOMAIN circle |->
                       IF circle[e].player_id = player[sender].player_id
                       THEN [circle[e] EXCEPT !.direction = normalized(direction),
                                              !.speed = Clamp(magnitude(direction), 0, Q)]
                       ELSE circle[e]]
       /\ result' = "ok"
       /\ trace' = <<>>
       /\ UNCHANGED <<config, spawn_food_timer, move_all_players_timer, entity,
                      entity_seq, food, player, logged_out_player, player_seq, ticks>>

\* mutant of FoodDraws: the upper end of the mass range is drawn as well
FoodDrawsInclusive(world_size) ==
  UNION {{[position |-> position, mass |-> food_mass] :
            position \in GenPosition(mass_to_radius(food_mass),
                                     world_size * Q - mass_to_radius(food_mass))} :
         food_mass \in FOOD_MASS_MIN..FOOD_MASS_MAX}

\* the rows one iteration of the loop of spawn_food may insert: food_mass drawn
\* from FOOD_MASS_MIN..FOOD_MASS_MAX (exclusive), x and y from
\* food_radius..world_size - food_radius (exclusive)
FoodDraws(world_size) ==
  UNION {{[position |-> position, mass |-> food_mass] :
            position \in GenPosition(mass_to_radius(food_mass),
                                     world_size * Q - mass_to_radius(food_mass))} :
         food_mass \in FOOD_MASS_MIN..(FOOD_MASS_MAX - 1)}

RECURSIVE SpawnFoodLoopOneMore(_, _, _)
\* mutant of SpawnFoodLoop: the loop runs while food_count <= TARGET_FOOD_COUNT
SpawnFoodLoopOneMore(st, food_count, world_size) ==
  IF food_count > TARGET_FOOD_COUNT THEN {st}
  ELSE UNION {SpawnFoodLoopOneMore([entity |-> Put(st.entity, st.entity_seq + 1, row),
                                    entity_seq |-> st.entity_seq + 1,
                                    food |-> st.food \cup {st.entity_seq + 1}],
                                   food_count + 1, world_size) :
                row \in FoodDraws(world_size)}

\* mutant of SpawnFoodLoop: the loop tests the count after the insertion
SpawnFoodLoopDoWhile(st, food_count, world_size) ==
  {[entity |-> Put(st.entity, st.entity_seq + 1, row),
    entity_seq |-> st.entity_seq + 1,
    food |-> st.food \cup {st.entity_seq + 1}] : row \in FoodDraws(world_size)}

RECURSIVE SpawnFoodLoop(_, _, _)
\* the while loop of spawn_food: the stores it can end with
SpawnFoodLoop(st, food_count, world_size) ==
  IF food_count >= TARGET_FOOD_COUNT THEN {st}
  ELSE UNION {SpawnFoodLoop([entity |-> Put(st.entity, st.entity_seq + 1, row),
                             entity_seq |-> st.entity_seq + 1,
                             food |-> st.food \cup {st.entity_seq + 1}],
                            food_count + 1, world_size) :
                row \in FoodDraws(world_size)}

\* mutant of spawn_food: the player count is not looked at
spawn_food_without_player_check ==
  IF 0 \notin DOMAIN config
  THEN Failed("Config not found")
  ELSE /\ entity_seq + (TARGET_FOOD_COUNT - Cardinality(food)) <= MaxEntityId
       /\ \E st \in SpawnFoodLoop([entity |-> entity, entity_seq |-> entity_seq, food |-> food],
                                  Cardinality(food), config[0].world_size) :
            /\ entity' = st.entity
            /\ entity_seq' = st.entity_seq
            /\ food' = st.food
       /\ result' = "ok"
       /\ trace' = <<>>
       /\ UNCHANGED <<config, spawn_food_timer, move_all_players_timer, circle, player,
                      logged_out_player, player_seq, ticks>>

\* spawn_food: fill the food table up to TARGET_FOOD_COUNT
spawn_food ==
  IF DOMAIN player = {}
  THEN /\ result' = "ok"
       /\ trace' = <<>>
       /\ UNCHANGED <<tables, ticks>>
  ELSE IF 0 \notin DOMAIN config
  THEN Failed("Config not found")
  ELSE /\ entity_seq + (TARGET_FOOD_COUNT - Cardinality(food)) <= MaxEntityId
       /\ \E st \in SpawnFoodLoop([entity |-> entity, entity_seq |-> entity_seq, food |-> food],
                                  Cardinality(food), config[0].world_size) :
            /\ entity' = st.entity
            /\ entity_seq' = st.entity_seq
            /\ food' = st.food
       /\ result' = "ok"
       /\ trace' = <<>>
       /\ UNCHANGED <<config, spawn_food_timer, move_all_players_timer, circle, player,
                      logged_out_player, player_seq, ticks>>

\* ------------------------------------------------------- move_all_players

\* mutant of is_overlapping: the distance is compared with the sum of the radii
is_overlapping_by_sum_of_radii(a, b) ==
  (a.position.x - b.position.x) * (a.position.x - b.position.x)
    + (a.position.y - b.position.y) * (a.position.y - b.position.y)
  <= (mass_to_radius(a.mass) + mass_to_radius(b.mass))
       * (mass_to_radius(a.mass) + mass_to_radius(b.mass))

\* is_overlapping: the squared distance of the centres against the square of
\* the larger radius
is_overlapping(a, b) ==
  (a.position.x - b.position.x) * (a.position.x - b.position.x)
    + (a.position.y - b.position.y) * (a.position.y - b.position.y)
  <= Max(mass_to_radius(a.mass), mass_to_radius(b.mass))
       * Max(mass_to_radius(a.mass), mass_to_radius(b.mass))

\* mutant of MovedPosition: the new position is not clamped
MovedPositionUnclamped(circle_row, circle_entity, world_size) ==
  VecAdd(circle_entity.position,
         VecScale(VecScale(circle_row.direction, circle_row.speed),
                  mass_to_max_move_speed(circle_entity.mass)))

\* mutant of MovedPosition: collisions are checked at the position before the move
MovedPositionStale(circle_row, circle_entity, world_size) == circle_entity.position

\* mutant of MovedPosition: the speed of the circle is left out of the displacement
MovedPositionIgnoresSpeed(circle_row, circle_entity, world_size) ==
  Vec(Clamp(VecAdd(circle_entity.position,
                   VecScale(circle_row.direction,
                            mass_to_max_move_speed(circle_entity.mass))).x,
            mass_to_radius(circle_entity.mass),
            world_size * Q - mass_to_radius(circle_entity.mass)),
      Clamp(VecAdd(circle_entity.position,
                   VecScale(circle_row.direction,
                            mass_to_max_move_speed(circle_entity.mass))).y,
            mass_to_radius(circle_entity.mass),
            world_size * Q - mass_to_radius(circle_entity.mass)))

\* the position move_all_players gives the circle before it checks collisions:
\* position + direction * speed * max speed, clamped to [radius, world_size - radius]
MovedPosition(circle_row, circle_entity, world_size) ==
  Vec(Clamp(VecAdd(circle_entity.position,
                   VecScale(VecScale(circle_row.direction, circle_row.speed),
                            mass_to_max_move_speed(circle_entity.mass))).x,
            mass_to_radius(circle_entity.mass),
            world_size * Q - mass_to_radius(circle_entity.mass)),
      Clamp(VecAdd(circle_entity.position,
                   VecScale(VecScale(circle_row.direction, circle_row.speed),
                            mass_to_max_move_speed(circle_entity.mass))).y,
            mass_to_radius(circle_entity.mass),
            world_size * Q - mass_to_radius(circle_entity.mass)))

\* mutant of BelowSafeRatio: the comparison is <= instead of <
AtMostSafeRatio(other_mass, this_mass) ==
  other_mass * SAFE_RATIO_DEN <= SAFE_RATIO_NUM * this_mass

\* mass_ratio < MINIMUM_SAFE_MASS_RATIO, with mass_ratio = other_mass / this_mass.
\* The f32 quotient is below the f32 constant 0.85 exactly when the exact ratio is
\* below 0.85, for masses under 8 * 10^6.
BelowSafeRatio(other_mass, this_mass) ==
  other_mass * SAFE_RATIO_DEN < SAFE_RATIO_NUM * this_mass

\* mutant of AddMass: the absorbed mass is dropped
AddMassLost(mass, gained) == mass

\* mutant of AddMass: the absorbed mass replaces the circle's own
AddMassAssigned(mass, gained) == gained

\* circle_entity.mass += entity.mass. The sum is a u32; the masses of the model
\* are at most MaxMass, far below 2^32, so the sum never wraps
AddMass(mass, gained) == mass + gained

\* what the scan records of one row it tested
Test(s, other_id, other, overlapping, ate_food, ate_circle) ==
  [other |-> other_id, position |-> other.position, mass |-> other.mass,
   this_mass |-> s.circle_entity.mass, overlapping |-> overlapping,
   is_food |-> other_id \in s.food,
   other_player |-> IF other_id \in DOMAIN s.circle THEN s.circle[other_id].player_id ELSE 0,
   ate_food |-> ate_food, ate_circle |-> ate_circle]

\* mutant of EatFood: the Food row is left behind
EatFoodKeepsFoodRow(s, other_id, other) ==
  [s EXCEPT !.entity = Remove(@, other_id),
            !.circle_entity.mass = AddMass(@, other.mass)]

\* overlapping with food: delete the food's Entity and Food rows, gain its mass
EatFood(s, other_id, other) ==
  [s EXCEPT !.entity = Remove(@, other_id),
            !.food = @ \ {other_id},
            !.circle_entity.mass = AddMass(@, other.mass)]

\* mutant of EatCircle: the Circle row is left behind
EatCircleKeepsCircleRow(s, other_id, other) ==
  [s EXCEPT !.entity = Remove(@, other_id),
            !.circle_entity.mass = AddMass(@, other.mass)]

\* overlapping with a smaller circle of another player: delete its Entity and
\* Circle rows, gain its mass
EatCircle(s, other_id, other) ==
  [s EXCEPT !.entity = Remove(@, other_id),
            !.circle = Remove(@, other_id),
            !.circle_entity.mass = AddMass(@, other.mass)]

\* mutant of CanAbsorb: the owner of the other circle is not looked at
CanAbsorbAnyPlayer(other_player, this_player, other_mass, this_mass) ==
  BelowSafeRatio(other_mass, this_mass)

\* other_circle.player_id != circle.player_id, and mass_ratio below the safe ratio
CanAbsorb(other_player, this_player, other_mass, this_mass) ==
  other_player # this_player /\ BelowSafeRatio(other_mass, this_mass)

\* mutant of CheckCircle: an absorption also costs the acting player its Circle rows
CheckCircleBothVanish(s, this_player, other_id, other) ==
  IF /\ other_id \in DOMAIN s.circle
     /\ CanAbsorb(s.circle[other_id].player_id, this_player, other.mass, s.circle_entity.mass)
  THEN [EatCircle(s, other_id, other) EXCEPT
          !.circle = [e \in {x \in DOMAIN @ \ {other_id} : @[x].player_id # this_player}
                        |-> @[e]],
          !.tests = @ \cup {Test(s, other_id, other, TRUE, FALSE, TRUE)}]
  ELSE [s EXCEPT !.tests = @ \cup {Test(s, other_id, other, TRUE, FALSE, FALSE)}]

\* the circle branch of the collision check, with s as the food branch left it
CheckCircle(s, this_player, other_id, other) ==
  IF /\ other_id \in DOMAIN s.circle
     /\ CanAbsorb(s.circle[other_id].player_id, this_player, other.mass, s.circle_entity.mass)
  THEN [EatCircle(s, other_id, other) EXCEPT
          !.tests = @ \cup {Test(s, other_id, other, TRUE, FALSE, TRUE)}]
  ELSE [s EXCEPT !.tests = @ \cup {Test(s, other_id, other, TRUE, FALSE, FALSE)}]

\* the body of the collision loop for one row `other` of the entity scan.
\* s = [entity, circle, food, circle_entity, tests]; this_id and this_player are the
\* entity_id and player_id of the acting circle
CheckCollision(s, this_id, this_player, other_id, other) ==
  IF other_id = this_id THEN s
  ELSE IF ~is_overlapping(s.circle_entity, other)
  THEN [s EXCEPT !.tests = @ \cup {Test(s, other_id, other, FALSE, FALSE, FALSE)}]
  ELSE IF other_id \in s.food
  THEN LET fed == EatFood(s, other_id, other)
       IN IF other_id \in DOMAIN fed.circle
          THEN CheckCircle(fed, this_player, other_id, other)
          ELSE [fed EXCEPT !.tests = @ \cup {Test(s, other_id, other, TRUE, TRUE, FALSE)}]
  ELSE CheckCircle(s, this_player, other_id, other)

RECURSIVE ScanEntities(_, _, _, _, _)
\* for entity in ctx.db.entity().iter(): rows is the scan's snapshot of the entity
\* table, order the order of its rows
ScanEntities(s, this_id, this_player, rows, order) ==
  IF order = <<>> THEN s
  ELSE ScanEntities(CheckCollision(s, this_id, this_player, Head(order), rows[Head(order)]),
                    this_id, this_player, rows, Tail(order))

\* the rows of `order` that are in the set `live`, in the same order
RECURSIVE Restrict(_, _)
Restrict(order, live) ==
  IF order = <<>> THEN <<>>
  ELSE IF Head(order) \in live THEN <<Head(order)>> \o Restrict(Tail(order), live)
       ELSE Restrict(Tail(order), live)

\* mutant of SkipCircle: the missing entity is unwrapped, which panics
SkipCirclePanics(st, id) == [st EXCEPT !.panicked = TRUE]

\* the turn of a circle whose entity is gone: continue
SkipCircle(st, id) ==
  [st EXCEPT !.trace = Append(@, [entity_id |-> id, player_id |-> 0, skipped |-> TRUE,
                                  position |-> Vec(0, 0), mass |-> 0, mass_after |-> 0,
                                  tests |-> {}])]

\* the body of the circle loop for the row circle_row (entity_id id) of the
\* snapshot of the circle table. st = [entity, circle, food, trace, panicked]
ProcessCircle(st, id, circle_row, entity_order, world_size) ==
  IF id \notin DOMAIN st.entity THEN SkipCircle(st, id)
  ELSE IF mass_to_radius(st.entity[id].mass) > world_size * Q - mass_to_radius(st.entity[id].mass)
  THEN [st EXCEPT !.panicked = TRUE]
  ELSE LET moved == [position |-> MovedPosition(circle_row, st.entity[id], world_size),
                     mass |-> st.entity[id].mass]
           s == ScanEntities([entity |-> st.entity, circle |-> st.circle, food |-> st.food,
                              circle_entity |-> moved, tests |-> {}],
                             id, circle_row.player_id, st.entity,
                             Restrict(entity_order, DOMAIN st.entity))
       IN [entity |-> Put(s.entity, id, s.circle_entity),
           circle |-> s.circle,
           food |-> s.food,
           trace |-> Append(st.trace, [entity_id |-> id, player_id |-> circle_row.player_id,
                                       skipped |-> FALSE,
                                       position |-> moved.position, mass |-> moved.mass,
                                       mass_after |-> s.circle_entity.mass,
                                       tests |-> s.tests]),
           panicked |-> st.panicked]

RECURSIVE ForEachCircle(_, _, _, _, _)
\* for circle in ctx.db.circle().iter(): rows is the snapshot of the circle table
ForEachCircle(st, rows, circle_order, entity_order, world_size) ==
  IF circle_order = <<>> \/ st.panicked THEN st
  ELSE ForEachCircle(ProcessCircle(st, Head(circle_order), rows[Head(circle_order)],
                                   entity_order, world_size),
                     rows, Tail(circle_order), entity_order, world_size)

\* the orders in which iter() may yield the rows with keys S
Orders(S) ==
  {o \in [1..Cardinality(S) -> S] : \A i, j \in 1..Cardinality(S) : o[i] = o[j] => i = j}

\* the store move_all_players ends with when the circle table is iterated in
\* circle_order and the entity table in entity_order
TickResult(circle_order, entity_order) ==
  ForEachCircle([entity |-> entity, circle |-> circle, food |-> food,
                 trace |-> <<>>, panicked |-> FALSE],
                circle, circle_order, entity_order, config[0].world_size)

\* mutant of move_all_players: the tick consumes the input, every circle is left
\* with speed 0
move_all_players_consumes_input ==
  IF 0 \notin DOMAIN config
  THEN Failed("Config not found")
  ELSE /\ ticks < MaxTicks
       /\ \E circle_order \in Orders(DOMAIN circle), entity_order \in Orders(DOMAIN entity) :
            LET r == TickResult(circle_order, entity_order)
            IN
            IF r.panicked
            THEN Failed("panic")
            ELSE /\ entity' = r.entity
                 /\ circle' = [e \in DOMAIN r.circle |-> [r.circle[e] EXCEPT !.speed = 0]]
                 /\ food' = r.food
                 /\ trace' = r.trace
                 /\ ticks' = ticks + 1
                 /\ result' = "ok"
                 /\ UNCHANGED <<config, spawn_food_timer, move_all_players_timer,
                                entity_seq, player, logged_out_player, player_seq>>

\* move_all_players: move every circle and resolve its collisions
move_all_players ==
  IF 0 \notin DOMAIN config
  THEN Failed("Config not found")
  ELSE /\ ticks < MaxTicks
       /\ \E circle_order \in Orders(DOMAIN circle), entity_order \in Orders(DOMAIN entity) :
            LET r == TickResult(circle_order, entity_order)
            IN
            IF r.panicked
            THEN Failed("panic")
            ELSE /\ entity' = r.entity
                 /\ circle' = r.circle
                 /\ food' = r.food
                 /\ trace' = r.trace
                 /\ ticks' = ticks + 1
                 /\ result' = "ok"
                 /\ UNCHANGED <<config, spawn_food_timer, move_all_players_timer,
                                entity_seq, player, logged_out_player, player_seq>>

\* ------------------------------------------------------------ specification

\* the reducers run on the server: none of them touches the state of a client
Next ==
  \/ init /\ UNCHANGED client
  \/ \E sender \in Identities : connect(sender) /\ UNCHANGED client
  \/ \E sender \in Identities : disconnect(sender) /\ UNCHANGED client
  \/ \E sender \in Identities, name \in Names :
       enter_game(sender, name) /\ UNCHANGED client
  \/ \E sender \in Identities, direction \in InputVectors :
       update_player_input(sender, direction) /\ UNCHANGED client
  \/ spawn_food /\ UNCHANGED client
  \/ move_all_players /\ UNCHANGED client

Spec == Init /\ [][Next]_vars
\* ----------------------------------------------------------------- arenas

\* An arena in the middle of a game: init has run, both identities are connected,
\* circle 1 belongs to player 1, circle 2 to either player, and entity 3 is food.
\* The circles have absorbed food or circles before, so their masses differ.
ArenaNear == Vec(10 * Q, 10 * Q)
ArenaFar == Vec(40 * Q, 10 * Q)

InitArena ==
  /\ ClientInit
  /\ config = Put(Empty, 0, [world_size |-> WORLD_SIZE])
  /\ spawn_food_timer = {500}
  /\ move_all_players_timer = {50}
  /\ player = [i \in 1..2 |-> [player_id |-> i, name |-> ""]]
  /\ logged_out_player = Empty
  /\ player_seq = 2
  /\ \E m1 \in ArenaMasses, m2 \in ArenaMasses, m3 \in FOOD_MASS_MIN..(FOOD_MASS_MAX - 1),
        p2 \in {ArenaNear, ArenaFar}, p3 \in {ArenaNear, ArenaFar}, owner2 \in 1..2 :
       /\ entity = <<[position |-> ArenaNear, mass |-> m1],
                     [position |-> p2, mass |-> m2],
                     [position |-> p3, mass |-> m3]>>
       /\ circle = <<[player_id |-> 1, direction |-> Vec(0, Q), speed |-> 0],
                     [player_id |-> owner2, direction |-> Vec(0, Q), speed |-> 0]>>
  /\ food = {3}
  /\ entity_seq = 3
  /\ ticks = 0
  /\ result = "ok"
  /\ trace = <<>>

NextArena ==
  \/ \E sender \in Identities, direction \in InputVectors :
       update_player_input(sender, direction) /\ UNCHANGED client
  \/ move_all_players /\ UNCHANGED client

SpecArena == InitArena /\ [][NextArena]_vars

\* ------------------------------------------------------------------ claims

RECURSIVE SumMass(_, _)
\* the sum of f[x].mass over x in S
SumMass(f, S) ==
  IF S = {} THEN 0
  ELSE f[CHOOSE x \in S : TRUE].mass + SumMass(f, S \ {CHOOSE x \in S : TRUE})

TotalMass(tbl) == SumMass(tbl, DOMAIN tbl)

RECURSIVE SumTests(_)
\* the mass of the rows a scan absorbed
SumTests(tests) ==
  IF tests = {} THEN 0
  ELSE (IF (CHOOSE t \in tests : TRUE).ate_food \/ (CHOOSE t \in tests : TRUE).ate_circle
        THEN (CHOOSE t \in tests : TRUE).mass ELSE 0)
       + SumTests(tests \ {CHOOSE t \in tests : TRUE})

\* the step is a move_all_players invocation that returned Ok
IsTick == ticks' = ticks + 1

\* the turns (index, test) of the trace tr in which the row e was absorbed
AbsorbedIn(tr, e) ==
  {<<i, t>> \in UNION {{<<j, u>> : u \in tr[j].tests} : j \in 1..Len(tr)} :
     t.other = e /\ (t.ate_food \/ t.ate_circle)}

\* C1: one move_all_players leaves the total mass of the entity table unchanged:
\* every deleted entity was absorbed exactly once, with the mass it had then, and
\* every acting circle ends its turn with its own mass plus what it absorbed
MassConservation ==
  [][IsTick =>
       /\ TotalMass(entity') = TotalMass(entity)
       /\ \A i \in 1..Len(trace') :
            ~trace'[i].skipped =>
              /\ trace'[i].mass = entity[trace'[i].entity_id].mass
              /\ trace'[i].mass_after = trace'[i].mass + SumTests(trace'[i].tests)
       /\ \A e \in DOMAIN entity \ DOMAIN entity' :
            /\ Cardinality(AbsorbedIn(trace', e)) = 1
            /\ \A a \in AbsorbedIn(trace', e) :
                 a[2].mass = IF \E j \in 1..(a[1] - 1) :
                                   trace'[j].entity_id = e /\ ~trace'[j].skipped
                              THEN (CHOOSE r \in {trace'[j] : j \in 1..(a[1] - 1)} :
                                      r.entity_id = e).mass_after
                              ELSE entity[e].mass
       /\ \A e \in DOMAIN entity' :
            entity'[e].mass = IF \E i \in 1..Len(trace') : trace'[i].entity_id = e
                              THEN (CHOOSE r \in {trace'[i] : i \in 1..Len(trace')} :
                                      r.entity_id = e).mass_after
                              ELSE entity[e].mass]_vars

\* C1 witness: a circle absorbed something and was itself absorbed later in the tick
AbsorberAbsorbed ==
  \E i, j \in 1..Len(trace) :
    /\ i < j
    /\ ~trace[i].skipped /\ ~trace[j].skipped
    /\ \E t \in trace[i].tests : t.ate_food \/ t.ate_circle
    /\ \E t \in trace[j].tests : t.other = trace[i].entity_id /\ t.ate_circle

\* C2: a circle is absorbed only when its mass is below 0.85 of the mass the
\* attacker has at that moment; circle rows leave the table in no other way
SafeRatio ==
  [][IsTick =>
       /\ \A i \in 1..Len(trace') : \A t \in trace'[i].tests :
            t.ate_circle =>
              /\ t.mass * SAFE_RATIO_DEN < SAFE_RATIO_NUM * t.this_mass
              /\ trace'[i].mass <= t.this_mass /\ t.this_mass <= trace'[i].mass_after
       /\ \A e \in DOMAIN circle \ DOMAIN circle' :
            \E a \in AbsorbedIn(trace', e) : a[2].ate_circle]_vars

\* C2 witness: a tick in which the attacker overlapped a circle of another player
\* at exactly 0.85 of its mass, and that circle is still in the tables
SafeRatioExactSurvives ==
  \E i \in 1..Len(trace) : \E t \in trace[i].tests :
    /\ t.overlapping /\ t.other_player # 0 /\ t.other_player # trace[i].player_id
    /\ t.mass * SAFE_RATIO_DEN = SAFE_RATIO_NUM * t.this_mass
    /\ ~t.ate_circle
    /\ t.other \in DOMAIN circle /\ t.other \in DOMAIN entity
\* C3: after a move_all_players every circle lies inside the arena with its whole
\* radius, the radius taken from the mass it has at the end of the tick
BoundaryContainment ==
  trace # <<>> =>
    \A e \in DOMAIN circle \cap DOMAIN entity :
      /\ mass_to_radius(entity[e].mass) <= entity[e].position.x
      /\ entity[e].position.x <= config[0].world_size * Q - mass_to_radius(entity[e].mass)
      /\ mass_to_radius(entity[e].mass) <= entity[e].position.y
      /\ entity[e].position.y <= config[0].world_size * Q - mass_to_radius(entity[e].mass)

\* C4: a circle of another player that the acting circle overlaps and that is
\* below 0.85 of the acting circle's mass loses its Entity and Circle rows, and the
\* acting circle gains its mass; A of mass 100 on C of mass 50 ends at 150, C gone
CircleAbsorption ==
  [][IsTick =>
       /\ \A i \in 1..Len(trace') : \A t \in trace'[i].tests :
            (/\ t.overlapping
             /\ t.other_player # 0 /\ t.other_player # trace'[i].player_id
             /\ t.mass * SAFE_RATIO_DEN < SAFE_RATIO_NUM * t.this_mass)
            => /\ t.ate_circle
               /\ t.other \notin DOMAIN entity'
               /\ t.other \notin DOMAIN circle'
       /\ \A i \in 1..Len(trace') :
            ~trace'[i].skipped =>
              trace'[i].mass_after = trace'[i].mass + SumTests(trace'[i].tests)
       /\ \A a, c \in DOMAIN circle :
            (/\ DOMAIN circle = {a, c}
             /\ circle[a].player_id # circle[c].player_id
             /\ circle[a].speed = 0 /\ circle[c].speed = 0
             /\ entity[a].mass = 100 /\ entity[c].mass = 50
             /\ entity[a].position = entity[c].position
             /\ \A f \in food : entity[f].position = ArenaFar)
            => /\ c \notin DOMAIN entity' /\ c \notin DOMAIN circle'
               /\ a \in DOMAIN entity' /\ a \in DOMAIN circle'
               /\ entity'[a].mass = 150]_vars

\* C4 witness: the tick after which A holds 150 and C is gone
CircleAbsorbed ==
  /\ \E i \in 1..Len(trace) : \E t \in trace[i].tests :
       /\ t.ate_circle /\ t.mass = 50 /\ t.this_mass = 100
       /\ trace[i].mass_after = 150
       /\ entity[trace[i].entity_id].mass = 150
       /\ t.other \notin DOMAIN entity /\ t.other \notin DOMAIN circle

\* C5: food that the acting circle overlaps loses its Entity and Food rows, and the
\* circle gains its mass, whatever the ratio; a lone circle of mass 15 at rest on a
\* food of mass 3 ends the tick with mass 18
FoodConsumption ==
  [][IsTick =>
       /\ \A i \in 1..Len(trace') : \A t \in trace'[i].tests :
            (t.overlapping /\ t.is_food)
            => /\ t.ate_food
               /\ t.other \notin DOMAIN entity'
               /\ t.other \notin food'
       /\ \A i \in 1..Len(trace') :
            ~trace'[i].skipped =>
              trace'[i].mass_after = trace'[i].mass + SumTests(trace'[i].tests)
       /\ \A c \in DOMAIN circle : \A f \in food :
            (/\ DOMAIN circle = {c} /\ food = {f}
             /\ circle[c].speed = 0
             /\ entity[c].mass = 15 /\ entity[f].mass = 3
             /\ entity[f].position = entity[c].position)
            => /\ f \notin DOMAIN entity' /\ f \notin food'
               /\ entity'[c].mass = 18
               /\ entity'[c].position = entity[c].position]_vars

\* C5 witness: the tick in which the lone circle at rest ate the food under it
FoodEaten ==
  /\ Len(trace) = 1
  /\ food = {}
  /\ \E t \in trace[1].tests :
       /\ t.ate_food /\ t.mass = 3 /\ t.position = trace[1].position
       /\ t.other \notin DOMAIN entity
  /\ trace[1].mass = 15
  /\ circle[trace[1].entity_id].speed = 0
  /\ entity[trace[1].entity_id].mass = 18

\* C6: a circle is never absorbed by a circle of the same player
SamePlayerNeverAbsorbed ==
  [][IsTick =>
       /\ \A i \in 1..Len(trace') : \A t \in trace'[i].tests :
            t.other_player = trace'[i].player_id => ~t.ate_circle
       /\ \A e \in DOMAIN circle \ DOMAIN circle' :
            \A a \in AbsorbedIn(trace', e) : trace'[a[1]].player_id # circle[e].player_id
       /\ (\A a, b \in DOMAIN circle : circle[a].player_id = circle[b].player_id)
            => DOMAIN circle' = DOMAIN circle]_vars

\* C6 witness: a tick in which a circle overlapped a lighter circle of its own
\* player, below the safe ratio, and left it in the tables
SamePlayerOverlap ==
  \E i \in 1..Len(trace) : \E t \in trace[i].tests :
    /\ t.overlapping
    /\ t.other_player = trace[i].player_id
    /\ t.mass * SAFE_RATIO_DEN < SAFE_RATIO_NUM * t.this_mass
    /\ t.other \in DOMAIN circle /\ t.other \in DOMAIN entity

\* C7: every Circle row and every Food row has its Entity row, and every Entity
\* row has exactly one of a Circle row and a Food row
OwnershipOneToOne ==
  /\ DOMAIN circle \subseteq DOMAIN entity
  /\ food \subseteq DOMAIN entity
  /\ \A e \in DOMAIN entity : (e \in DOMAIN circle) # (e \in food)

\* C7 witness: a player has disconnected, and a tick has absorbed rows while a
\* circle is in the arena
RowsDeletedBothWays ==
  /\ DOMAIN logged_out_player # {}
  /\ DOMAIN circle # {}
  /\ entity_seq > Cardinality(DOMAIN entity) + 1
  /\ \E i \in 1..Len(trace) : \E t \in trace[i].tests : t.ate_food \/ t.ate_circle

RECURSIVE Ascending(_)
\* the keys S in ascending order
Ascending(S) ==
  IF S = {} THEN <<>>
  ELSE <<CHOOSE x \in S : \A y \in S : x <= y>>
         \o Ascending(S \ {CHOOSE x \in S : \A y \in S : x <= y})

\* C8: a tick ends with the tables that processing the circles and scanning the
\* entities in ascending entity_id gives
DeterministicOrder ==
  [][IsTick =>
       /\ entity' = TickResult(Ascending(DOMAIN circle), Ascending(DOMAIN entity)).entity
       /\ circle' = TickResult(Ascending(DOMAIN circle), Ascending(DOMAIN entity)).circle
       /\ food' = TickResult(Ascending(DOMAIN circle), Ascending(DOMAIN entity)).food]_vars

\* the turns before turn i of the trace tr in which the circle id was absorbed
AbsorbedBefore(tr, i, id) ==
  {j \in 1..(i - 1) : \E t \in tr[j].tests : t.other = id /\ t.ate_circle}

\* C9: a circle absorbed earlier in the tick is skipped at its turn: it tests
\* nothing, absorbs nothing, its rows stay deleted, and the invocation succeeds;
\* no other circle is skipped
AbsorbedCircleSkipped ==
  [][/\ result' # "panic"
     /\ IsTick =>
          \A i \in 1..Len(trace') :
            /\ AbsorbedBefore(trace', i, trace'[i].entity_id) # {}
                 => /\ trace'[i].skipped
                    /\ trace'[i].tests = {}
                    /\ trace'[i].entity_id \notin DOMAIN entity'
                    /\ trace'[i].entity_id \notin DOMAIN circle'
            /\ trace'[i].skipped => AbsorbedBefore(trace', i, trace'[i].entity_id) # {}]_vars

\* C9 witness: a tick with a skipped turn
SkippedTurn == \E i \in 1..Len(trace) : trace[i].skipped

\* the position a circle holds after its move: position + direction * speed *
\* max speed, each axis clamped to [radius, world_size - radius]
ExpectedMove(c, e, world_size) ==
  Vec(Clamp(e.position.x
              + ((((c.direction.x * c.speed) \div Q) * mass_to_max_move_speed(e.mass)) \div Q),
            mass_to_radius(e.mass), world_size * Q - mass_to_radius(e.mass)),
      Clamp(e.position.y
              + ((((c.direction.y * c.speed) \div Q) * mass_to_max_move_speed(e.mass)) \div Q),
            mass_to_radius(e.mass), world_size * Q - mass_to_radius(e.mass)))

\* C10 as claimed: every overlap test against another circle sees that circle at
\* the position that includes its movement of this tick
OverlapAfterAllMoves ==
  [][IsTick =>
       \A i \in 1..Len(trace') : \A t \in trace'[i].tests :
         t.other \in DOMAIN circle =>
           t.position = ExpectedMove(circle[t.other], entity[t.other],
                                     config[0].world_size)]_vars

\* C10 as amended: every overlap test sees the acting circle at the position that
\* includes its own movement of this tick, and the other entity at its stored
\* position: moved if its turn came earlier in the tick, the position from before
\* the tick otherwise
OverlapAfterOwnMove ==
  [][IsTick =>
       \A i \in 1..Len(trace') :
         ~trace'[i].skipped =>
           /\ trace'[i].position = ExpectedMove(circle[trace'[i].entity_id],
                                                entity[trace'[i].entity_id],
                                                config[0].world_size)
           /\ \A t \in trace'[i].tests :
                t.position =
                  IF \E j \in 1..(i - 1) : trace'[j].entity_id = t.other /\ ~trace'[j].skipped
                  THEN ExpectedMove(circle[t.other], entity[t.other], config[0].world_size)
                  ELSE entity[t.other].position]_vars

\* C10 witness: a tick in which a circle was tested at the position from before
\* the tick and moved away from it at its own, later turn
TestedBeforeItMoved ==
  \E i, j \in 1..Len(trace) : \E t \in trace[i].tests :
    /\ i < j
    /\ trace[j].entity_id = t.other
    /\ ~trace[j].skipped
    /\ trace[j].position # t.position

SpawnFoodNoPlayers ==
  [][(spawn_food /\ DOMAIN player = {}) => (result' = "ok" /\ UNCHANGED tables)]_vars

\* C12 witness: an invocation has returned Ok while no player is connected, the
\* food count is below the target and a config row exists
NoPlayersBelowTarget ==
  /\ DOMAIN player = {}
  /\ DOMAIN logged_out_player # {}
  /\ 0 \in DOMAIN config
  /\ Cardinality(food) < TARGET_FOOD_COUNT
  /\ result = "ok" /\ trace = <<>>

\* C13: every entity spawn_food inserts is a food of mass 2 or 3 at a position with
\* radius <= x, y < world_size - radius; it comes with exactly one Food row of the
\* same entity_id and no Circle row, and the rows that were there are unchanged
FoodSpawnRange ==
  [][spawn_food =>
       /\ \A e \in DOMAIN entity' \ DOMAIN entity :
            /\ entity'[e].mass \in {2, 3}
            /\ entity'[e].mass >= FOOD_MASS_MIN /\ entity'[e].mass < FOOD_MASS_MAX
            /\ ISqrt(entity'[e].mass * Q * Q) <= entity'[e].position.x
            /\ entity'[e].position.x < config[0].world_size * Q - ISqrt(entity'[e].mass * Q * Q)
            /\ ISqrt(entity'[e].mass * Q * Q) <= entity'[e].position.y
            /\ entity'[e].position.y < config[0].world_size * Q - ISqrt(entity'[e].mass * Q * Q)
            /\ e \in food' /\ e \notin DOMAIN circle'
       /\ food' \ food = DOMAIN entity' \ DOMAIN entity
       /\ food \subseteq food'
       /\ entity_seq' = entity_seq + Cardinality(food' \ food)
       /\ \A e \in DOMAIN entity : e \in DOMAIN entity' /\ entity'[e] = entity[e]
       /\ circle' = circle]_vars

\* C13 witness: the newest entity is a food that was spawned overlapping a circle
FoodSpawnedOnCircle ==
  /\ entity_seq \in food
  /\ result = "ok" /\ trace = <<>>
  /\ \E c \in DOMAIN circle : is_overlapping(entity[c], entity[entity_seq])

\* the player_ids of the rows of a Player-shaped table
PlayerIds(tbl) == {tbl[i].player_id : i \in DOMAIN tbl}

\* C14: connect by an identity with a LoggedOutPlayer row moves that row back into
\* Player with its player_id and name; connect by an identity with no row in either
\* table inserts a Player row with the empty name and a player_id no row holds; so
\* the connect that follows a disconnect gives back the Player table from before it
ConnectRestores ==
  [][\A sender \in Identities :
       /\ (connect(sender) /\ sender \in DOMAIN logged_out_player /\ sender \notin DOMAIN player)
          => /\ result' = "ok"
             /\ DOMAIN player' = DOMAIN player \cup {sender}
             /\ player'[sender] = logged_out_player[sender]
             /\ \A i \in DOMAIN player : player'[i] = player[i]
             /\ DOMAIN logged_out_player' = DOMAIN logged_out_player \ {sender}
             /\ \A i \in DOMAIN logged_out_player' : logged_out_player'[i] = logged_out_player[i]
       /\ (connect(sender) /\ sender \notin DOMAIN logged_out_player /\ sender \notin DOMAIN player)
          => /\ result' = "ok"
             /\ DOMAIN player' = DOMAIN player \cup {sender}
             /\ player'[sender].name = ""
             /\ player'[sender].player_id > 0
             /\ player'[sender].player_id \notin PlayerIds(player) \cup PlayerIds(logged_out_player)
             /\ \A i \in DOMAIN player : player'[i] = player[i]
             /\ logged_out_player' = logged_out_player
       /\ (disconnect(sender) /\ sender \in DOMAIN player)
          => /\ sender \in DOMAIN logged_out_player' /\ sender \notin DOMAIN player'
             /\ [i \in DOMAIN player' \cup {sender} |->
                   IF i = sender THEN logged_out_player'[sender] ELSE player'[i]] = player]_vars

\* C14 witness: an identity that entered the game under a name, disconnected (its
\* circle is gone before any tick) and connected again holds its named row
ReconnectedWithName ==
  \E i \in DOMAIN player :
    /\ player[i].name = "n1"
    /\ i \notin DOMAIN logged_out_player
    /\ \A e \in DOMAIN circle : circle[e].player_id # player[i].player_id
    /\ entity_seq > 0
    /\ ticks = 0
    /\ result = "ok"

\* C15: a disconnect by an identity with a Player row moves that row to
\* LoggedOutPlayer with its player_id and name and deletes exactly the Circle rows
\* of that player_id with their Entity rows; every other row is unchanged
DisconnectArchives ==
  [][\A sender \in Identities :
       (disconnect(sender) /\ sender \in DOMAIN player)
       => /\ result' = "ok"
          /\ DOMAIN player' = DOMAIN player \ {sender}
          /\ \A i \in DOMAIN player' : player'[i] = player[i]
          /\ DOMAIN logged_out_player' = DOMAIN logged_out_player \cup {sender}
          /\ logged_out_player'[sender] = player[sender]
          /\ \A i \in DOMAIN logged_out_player : logged_out_player'[i] = logged_out_player[i]
          /\ DOMAIN circle' = {e \in DOMAIN circle : circle[e].player_id # player[sender].player_id}
          /\ \A e \in DOMAIN circle' :
               circle'[e] = circle[e] /\ circle'[e].player_id # player[sender].player_id
          /\ DOMAIN entity' = {e \in DOMAIN entity :
                                 e \in DOMAIN circle => circle[e].player_id # player[sender].player_id}
          /\ \A e \in DOMAIN entity' : entity'[e] = entity[e]
          /\ food' = food
          /\ \A f \in food : f \in DOMAIN entity => f \in DOMAIN entity'
          /\ UNCHANGED <<config, entity_seq, player_seq>>]_vars

\* C15 witness: a player has disconnected and lost its circle, while a circle of
\* another player and a food are still in the arena
DisconnectedAmongOthers ==
  /\ DOMAIN logged_out_player # {}
  /\ \A i \in DOMAIN logged_out_player :
       \A e \in DOMAIN circle : circle[e].player_id # logged_out_player[i].player_id
  /\ DOMAIN circle # {}
  /\ food # {}
  /\ entity_seq > Cardinality(DOMAIN entity)
  /\ ticks = 0
  /\ result = "ok"

\* C16: no identity has a row in both Player and LoggedOutPlayer, and each identity
\* that has connected (the player_id sequence has issued one id per such identity)
\* has a row in exactly one of the two, under a player_id of its own
PlayerTablesDisjoint ==
  /\ DOMAIN player \cap DOMAIN logged_out_player = {}
  /\ Cardinality(DOMAIN player \cup DOMAIN logged_out_player) = player_seq
  /\ PlayerIds(player) \cap PlayerIds(logged_out_player) = {}
  /\ PlayerIds(player) \cup PlayerIds(logged_out_player) = 1..player_seq

\* C16 witness: one identity is connected and another logged out, and a connect by
\* an identity that is already connected has been refused (no init has run)
SecondConnectRefused ==
  /\ DOMAIN player # {}
  /\ DOMAIN logged_out_player # {}
  /\ 0 \notin DOMAIN config
  /\ result = "duplicate key"

\* C17: a disconnect by a player with no circle removes no Entity and no Circle row
\* and leaves one LoggedOutPlayer row for the identity; a disconnect by an identity
\* without a Player row fails with "Player not found" and changes no table
IdempotentDisconnect ==
  [][\A sender \in Identities :
       /\ (/\ disconnect(sender)
           /\ sender \in DOMAIN player
           /\ \A e \in DOMAIN circle : circle[e].player_id # player[sender].player_id)
          => /\ result' = "ok"
             /\ entity' = entity /\ circle' = circle /\ food' = food
             /\ sender \notin DOMAIN player'
             /\ sender \in DOMAIN logged_out_player'
             /\ logged_out_player'[sender] = player[sender]
             /\ Cardinality(DOMAIN logged_out_player') = Cardinality(DOMAIN logged_out_player) + 1
       /\ (disconnect(sender) /\ sender \notin DOMAIN player)
          => /\ result' = "Player not found"
             /\ UNCHANGED tables]_vars

\* C17 witness: an invocation by an identity without a Player row has failed while
\* an identity is logged out and no entity has ever been deleted
SecondDisconnectFailed ==
  /\ result = "Player not found"
  /\ DOMAIN logged_out_player # {}
  /\ DOMAIN entity # {}
  /\ entity_seq = Cardinality(DOMAIN entity)

\* C18: an enter_game by an identity with a Player row (the config row in place)
\* sets the name of that row and adds exactly one Entity row and one Circle row of
\* the same entity_id: mass START_PLAYER_MASS = 15, direction (0, 1), speed 0, the
\* caller's player_id, radius(15) <= x, y < world_size - radius(15); this holds
\* whatever circles the player owns, and no other row changes
EnterGameSpawnsOne ==
  [][\A sender \in Identities : \A name \in Names :
       (enter_game(sender, name) /\ sender \in DOMAIN player /\ 0 \in DOMAIN config)
       => /\ result' = "ok"
          /\ DOMAIN player' = DOMAIN player
          /\ player'[sender].name = name
          /\ player'[sender].player_id = player[sender].player_id
          /\ \A i \in DOMAIN player \ {sender} : player'[i] = player[i]
          /\ logged_out_player' = logged_out_player
          /\ Cardinality(DOMAIN entity' \ DOMAIN entity) = 1
          /\ DOMAIN circle' \ DOMAIN circle = DOMAIN entity' \ DOMAIN entity
          /\ \A e \in DOMAIN entity' \ DOMAIN entity :
               /\ entity'[e].mass = START_PLAYER_MASS /\ entity'[e].mass = 15
               /\ circle'[e].direction = Vec(0, Q)
               /\ circle'[e].speed = 0
               /\ circle'[e].player_id = player[sender].player_id
               /\ ISqrt(15 * Q * Q) <= entity'[e].position.x
               /\ entity'[e].position.x < config[0].world_size * Q - ISqrt(15 * Q * Q)
               /\ ISqrt(15 * Q * Q) <= entity'[e].position.y
               /\ entity'[e].position.y < config[0].world_size * Q - ISqrt(15 * Q * Q)
               /\ e \notin food'
          /\ \A e \in DOMAIN entity : e \in DOMAIN entity' /\ entity'[e] = entity[e]
          /\ \A e \in DOMAIN circle : e \in DOMAIN circle' /\ circle'[e] = circle[e]
          /\ food' = food
          /\ config' = config]_vars

\* C18 witness: a player has entered the game twice and owns two circles of mass 15
EnteredTwice ==
  \E i \in DOMAIN player : \E a, b \in DOMAIN circle :
    /\ a # b
    /\ circle[a].player_id = player[i].player_id
    /\ circle[b].player_id = player[i].player_id
    /\ entity[a].mass = 15 /\ entity[b].mass = 15
    /\ player[i].name = "n1"
    /\ ticks = 0
    /\ result = "ok"

\* C19: update_player_input and enter_game by an identity without a Player row
\* return "Player not found" and change no table
MissingPlayerRejected ==
  [][\A sender \in Identities :
       (/\ sender \notin DOMAIN player
        /\ \/ \E direction \in InputVectors : update_player_input(sender, direction)
           \/ \E name \in Names : enter_game(sender, name))
       => /\ result' = "Player not found"
          /\ UNCHANGED tables]_vars

\* C19 witness: an invocation has failed with "Player not found" while an identity
\* that entered the game is logged out and a circle of another player is in the arena
LoggedOutCallerRejected ==
  /\ result = "Player not found"
  /\ \E i \in DOMAIN logged_out_player : logged_out_player[i].name = "n1"
  /\ DOMAIN circle # {}
  /\ DOMAIN player # {}

\* C20: an update_player_input by an identity with a Player row changes only the
\* direction and speed of the Circle rows of the caller's player_id; the Circle
\* rows of other players and every other table are unchanged
InputFrame ==
  [][\A sender \in Identities : \A direction \in InputVectors :
       (update_player_input(sender, direction) /\ sender \in DOMAIN player)
       => /\ result' = "ok"
          /\ DOMAIN circle' = DOMAIN circle
          /\ \A e \in DOMAIN circle :
               /\ circle'[e].player_id = circle[e].player_id
               /\ circle[e].player_id # player[sender].player_id => circle'[e] = circle[e]
          /\ UNCHANGED <<config, spawn_food_timer, move_all_players_timer, entity, entity_seq,
                         food, player, logged_out_player, player_seq>>]_vars

\* C20 witness: two circles of different players, one steered by its player's input
\* and one still with the direction and speed of its spawn
OneCircleSteered ==
  \E a, b \in DOMAIN circle :
    /\ circle[a].player_id # circle[b].player_id
    /\ circle[a].speed = Q /\ circle[a].direction # Vec(0, Q)
    /\ circle[b].speed = 0 /\ circle[b].direction = Vec(0, Q)
    /\ ticks = 0
    /\ result = "ok"

\* ------------------------------------------------------------ input arena

\* The lobby after init and the connect of both identities, and the vectors a
\* client may send from it: the zero vector, one shorter than 1, one of length 1,
\* and two longer than 1.
WideInputVectors ==
  {Vec(0, 0), Vec(Q \div 2, 0), Vec(0, Q), Vec(0 - 2 * Q, 2 * Q), Vec(3 * Q, 4 * Q)}

InitInput ==
  /\ ClientInit
  /\ config = Put(Empty, 0, [world_size |-> WORLD_SIZE])
  /\ spawn_food_timer = {500}
  /\ move_all_players_timer = {50}
  /\ player = [i \in 1..2 |-> [player_id |-> i, name |-> ""]]
  /\ logged_out_player = Empty
  /\ player_seq = 2
  /\ entity = Empty
  /\ entity_seq = 0
  /\ circle = Empty
  /\ food = {}
  /\ ticks = 0
  /\ result = "ok"
  /\ trace = <<>>

NextInput ==
  \/ \E sender \in Identities, name \in Names :
       enter_game(sender, name) /\ UNCHANGED client
  \/ \E sender \in Identities, direction \in WideInputVectors :
       update_player_input(sender, direction) /\ UNCHANGED client
  \/ move_all_players /\ UNCHANGED client

SpecInput == InitInput /\ [][NextInput]_vars

ConfigSingleton ==
  [][/\ (init /\ 0 \notin DOMAIN config)
        => /\ result' = "ok"
           /\ DOMAIN config' = {0}
           /\ config'[0].world_size = 1000
           /\ spawn_food_timer' = {500}
           /\ move_all_players_timer' = {50}
     /\ (init /\ 0 \in DOMAIN config)
        => /\ result' = "duplicate key"
           /\ UNCHANGED tables
     /\ 0 \in DOMAIN config
        => /\ config' = config
           /\ spawn_food_timer' = spawn_food_timer
           /\ move_all_players_timer' = move_all_players_timer
     /\ config' # config => init
     /\ DOMAIN config' \subseteq {0}
     /\ \A c \in DOMAIN config' : config'[c].world_size = 1000]_vars

\* C23 witness: a second init has been refused and the Config row is as the first
\* init wrote it (no identity has connected, so the duplicate key is init's)
SecondInitRefused ==
  /\ result = "duplicate key"
  /\ DOMAIN config = {0}
  /\ config[0].world_size = 1000
  /\ spawn_food_timer = {500} /\ move_all_players_timer = {50}
  /\ DOMAIN player = {} /\ DOMAIN logged_out_player = {}

\* ------------------------------------------------------------ heavy arena

\* An arena late in a game: circle 1 has absorbed until its radius is half the
\* world (it sits in the centre) or until it has absorbed one more circle of mass
\* 100; circle 2 belongs to the other player and entity 3 is food.
ArenaCentre == Vec((WORLD_SIZE \div 2) * Q, (WORLD_SIZE \div 2) * Q)

InitHeavy ==
  /\ ClientInit
  /\ config = Put(Empty, 0, [world_size |-> WORLD_SIZE])
  /\ spawn_food_timer = {500}
  /\ move_all_players_timer = {50}
  /\ player = [i \in 1..2 |-> [player_id |-> i, name |-> ""]]
  /\ logged_out_player = Empty
  /\ player_seq = 2
  /\ \E m1 \in {HeavyMass, HeavyMass + 100}, m2 \in ArenaMasses,
        m3 \in FOOD_MASS_MIN..(FOOD_MASS_MAX - 1),
        p2 \in {ArenaNear, ArenaCentre}, p3 \in {ArenaNear, ArenaCentre} :
       entity = <<[position |-> ArenaCentre, mass |-> m1],
                  [position |-> p2, mass |-> m2],
                  [position |-> p3, mass |-> m3]>>
  /\ circle = <<[player_id |-> 1, direction |-> Vec(0, Q), speed |-> 0],
                [player_id |-> 2, direction |-> Vec(0, Q), speed |-> 0]>>
  /\ food = {3}
  /\ entity_seq = 3
  /\ ticks = 0
  /\ result = "ok"
  /\ trace = <<>>

SpecHeavy == InitHeavy /\ [][NextArena]_vars

\* C24: with a Config row in place every move_all_players returns Ok, whatever the
\* masses and positions of the circles
TickNeverAborted ==
  [][(move_all_players /\ 0 \in DOMAIN config) => result' = "ok"]_vars

OverlapMasses == {16, 18}
OverlapOffsets == {Vec(4 * Q, 0), Vec(ISqrt(18 * Q * Q), 0), Vec(3 * Q, 3 * Q), Vec(7 * Q, 0)}

InitOverlap ==
  /\ ClientInit
  /\ config = Put(Empty, 0, [world_size |-> WORLD_SIZE])
  /\ spawn_food_timer = {500}
  /\ move_all_players_timer = {50}
  /\ player = [i \in 1..2 |-> [player_id |-> i, name |-> ""]]
  /\ logged_out_player = Empty
  /\ player_seq = 2
  /\ \E m1 \in OverlapMasses, m2 \in OverlapMasses, m3 \in FOOD_MASS_MIN..(FOOD_MASS_MAX - 1),
        o2 \in OverlapOffsets, o3 \in OverlapOffsets \cup {Vec(30 * Q, 0)} :
       entity = <<[position |-> ArenaNear, mass |-> m1],
                  [position |-> VecAdd(ArenaNear, o2), mass |-> m2],
                  [position |-> VecAdd(ArenaNear, o3), mass |-> m3]>>
  /\ circle = <<[player_id |-> 1, direction |-> Vec(0, Q), speed |-> 0],
                [player_id |-> 2, direction |-> Vec(0, Q), speed |-> 0]>>
  /\ food = {3}
  /\ entity_seq = 3
  /\ ticks = 0
  /\ result = "ok"
  /\ trace = <<>>

SpecOverlap == InitOverlap /\ [][NextArena]_vars

\* the squared distance of two positions
DistanceSq(p, q) == (p.x - q.x) * (p.x - q.x) + (p.y - q.y) * (p.y - q.y)

\* the larger of the two rounded radii, squared
MaxRadiusSq(m1, m2) ==
  IF ISqrt(m1 * Q * Q) >= ISqrt(m2 * Q * Q)
  THEN ISqrt(m1 * Q * Q) * ISqrt(m1 * Q * Q)
  ELSE ISqrt(m2 * Q * Q) * ISqrt(m2 * Q * Q)

RatioOfStoredMasses ==
  [][IsTick =>
       \A i \in 1..Len(trace') : \A t \in trace'[i].tests :
         (/\ t.overlapping
          /\ t.other_player # 0 /\ t.other_player # trace'[i].player_id
          /\ t.mass * SAFE_RATIO_DEN >= SAFE_RATIO_NUM * trace'[i].mass)
         => ~t.ate_circle]_vars

\* C28: after every step no circle belongs to a logged-out player; a circle row
\* appears only through an enter_game of its owner; a connect adds no Circle and no
\* Entity row
DisconnectForfeits ==
  [][/\ \A i \in DOMAIN logged_out_player' : \A e \in DOMAIN circle' :
          circle'[e].player_id # logged_out_player'[i].player_id
     /\ \A e \in DOMAIN circle' \ DOMAIN circle :
          \E sender \in DOMAIN player : \E name \in Names :
            /\ enter_game(sender, name)
            /\ circle'[e].player_id = player[sender].player_id
     /\ \A sender \in Identities :
          connect(sender) => circle' = circle /\ entity' = entity /\ entity_seq' = entity_seq]_vars

\* C28 witness: an identity that entered the game, disconnected and connected again
\* has its named row and no circle, while the circle of another player is still there
ReconnectedEmptyHanded ==
  \E i \in DOMAIN player :
    /\ player[i].name = "n1"
    /\ \A e \in DOMAIN circle : circle[e].player_id # player[i].player_id
    /\ DOMAIN circle # {}
    /\ entity_seq > Cardinality(DOMAIN entity)
    /\ DOMAIN logged_out_player = {}
    /\ ticks = 0
    /\ result = "ok"

\* C29: after every step the food table holds at most TARGET_FOOD_COUNT rows; a
\* step that inserts a Food row is a spawn_food and a step that deletes one is a
\* move_all_players
FoodCountBound ==
  [][/\ Cardinality(food') <= TARGET_FOOD_COUNT
     /\ food' \ food # {} => spawn_food
     /\ food \ food' # {} => IsTick]_vars

\* C29 witness: the food table has been filled up to the bound while two circles
\* are in the arena
FoodAtBound ==
  /\ Cardinality(food) = TARGET_FOOD_COUNT
  /\ entity_seq \in food
  /\ Cardinality(DOMAIN circle) = 2
  /\ ticks = 0
  /\ result = "ok"

\* the row of identity i in Player or, if it has none there, in LoggedOutPlayer
PlayerRow(p, l, i) == IF i \in DOMAIN p THEN p[i] ELSE l[i]

\* C30: after every step no two rows of Player and LoggedOutPlayer share a
\* player_id; an identity keeps the player_id of its row; a new row gets a
\* player_id that was never issued; a connect by an identity without a Player row
\* succeeds
PlayerIdsUnique ==
  [][/\ \A i, j \in DOMAIN player' \cup DOMAIN logged_out_player' :
          i # j => PlayerRow(player', logged_out_player', i).player_id
                     # PlayerRow(player', logged_out_player', j).player_id
     /\ \A i \in DOMAIN player \cup DOMAIN logged_out_player :
          /\ i \in DOMAIN player' \cup DOMAIN logged_out_player'
          /\ PlayerRow(player', logged_out_player', i).player_id
               = PlayerRow(player, logged_out_player, i).player_id
     /\ \A i \in (DOMAIN player' \cup DOMAIN logged_out_player')
                   \ (DOMAIN player \cup DOMAIN logged_out_player) :
          PlayerRow(player', logged_out_player', i).player_id > player_seq
     /\ \A i \in DOMAIN player' \cup DOMAIN logged_out_player' :
          /\ PlayerRow(player', logged_out_player', i).player_id >= 1
          /\ PlayerRow(player', logged_out_player', i).player_id <= player_seq'
     /\ \A sender \in Identities :
          (connect(sender) /\ sender \notin DOMAIN player) => result' = "ok"]_vars

\* C30 witness: one identity has disconnected while the other one was connected,
\* and both are connected with player_ids of their own
TwoSessions ==
  /\ Cardinality(DOMAIN player) = 2
  /\ \A i, j \in DOMAIN player : i # j => player[i].player_id # player[j].player_id
  /\ \E i \in DOMAIN player : player[i].name = "n1"
  /\ DOMAIN circle = {}
  /\ entity_seq > 0
  /\ ticks = 0
  /\ result = "ok"

\* C31: in every reachable state each Circle row's player_id is the player_id of
\* a row of the Player table
CircleOwnerConnected ==
  \A e \in DOMAIN circle :
    \E i \in DOMAIN player : player[i].player_id = circle[e].player_id

\* C31 witness: one player that had a circle has disconnected and sits in
\* LoggedOutPlayer, while the circle of the connected player is in the arena
OwnerLeftOtherPlays ==
  /\ \E i \in DOMAIN logged_out_player : logged_out_player[i].name = "n1"
  /\ \E i \in DOMAIN player : player[i].name = "n1"
  /\ Cardinality(DOMAIN circle) = 1
  /\ entity_seq >= 2
  /\ ticks = 0
  /\ result = "ok"

\* C32: the mass of a circle never decreases from one state to the next while its
\* rows exist and is at least START_PLAYER_MASS; the mass of a food entity stays
\* what it was when the food was spawned
CircleMassMonotone ==
  [][/\ \A e \in DOMAIN circle' :
          e \in DOMAIN entity' => entity'[e].mass >= START_PLAYER_MASS
     /\ \A e \in DOMAIN circle \cap DOMAIN circle' :
          (e \in DOMAIN entity /\ e \in DOMAIN entity')
          => entity'[e].mass >= entity[e].mass
     /\ \A e \in food \cap food' :
          (e \in DOMAIN entity /\ e \in DOMAIN entity')
          => entity'[e].mass = entity[e].mass]_vars

\* C32 witness: after a tick one circle is heavier than it was spawned, next to a
\* circle that still has its starting mass
GrownBesideNewcomer ==
  /\ ticks = 1
  /\ result = "ok"
  /\ \E a, b \in DOMAIN circle :
       /\ a # b
       /\ entity[a].mass > START_PLAYER_MASS
       /\ entity[b].mass = START_PLAYER_MASS
       /\ \E i \in 1..Len(trace) :
            /\ trace[i].entity_id = a
            /\ trace[i].mass = START_PLAYER_MASS
            /\ trace[i].mass_after = entity[a].mass

\* C33: a move_all_players inserts no row into Entity, Circle or Food and issues
\* no entity_id, leaves player_id, direction and speed of every remaining Circle
\* row as they were, leaves position and mass of every food that survives as they
\* were, and leaves Player, LoggedOutPlayer, Config and the timers untouched
TickFrame ==
  [][IsTick =>
       /\ DOMAIN entity' \subseteq DOMAIN entity
       /\ DOMAIN circle' \subseteq DOMAIN circle
       /\ food' \subseteq food
       /\ Cardinality(DOMAIN entity') <= Cardinality(DOMAIN entity)
       /\ Cardinality(DOMAIN circle') <= Cardinality(DOMAIN circle)
       /\ Cardinality(food') <= Cardinality(food)
       /\ entity_seq' = entity_seq
       /\ \A e \in DOMAIN circle' :
            /\ circle'[e].player_id = circle[e].player_id
            /\ circle'[e].direction = circle[e].direction
            /\ circle'[e].speed = circle[e].speed
       /\ \A e \in food' :
            /\ entity'[e].position = entity[e].position
            /\ entity'[e].mass = entity[e].mass
       /\ player' = player
       /\ logged_out_player' = logged_out_player
       /\ player_seq' = player_seq
       /\ config' = config
       /\ spawn_food_timer' = spawn_food_timer
       /\ move_all_players_timer' = move_all_players_timer]_vars

\* C33 witness: a tick in which a steered circle tested a food it did not reach,
\* while another player was logged out
SteeredPastFood ==
  /\ ticks = 1
  /\ result = "ok"
  /\ DOMAIN logged_out_player # {}
  /\ \E e \in DOMAIN circle :
       /\ circle[e].speed > 0
       /\ \E i \in 1..Len(trace) :
            /\ trace[i].entity_id = e
            /\ \E t \in trace[i].tests :
                 t.is_food /\ ~t.overlapping /\ t.other \in food

\* C34: a move_all_players that starts with at least one Circle row ends with at
\* least one; every circle that acted and absorbed a circle after all others did is
\* still there, and no two circles absorb each other within one invocation
ArenaNeverEmptied ==
  [][IsTick =>
       /\ DOMAIN circle # {} => DOMAIN circle' # {}
       /\ \A i \in 1..Len(trace') :
            (/\ \E t \in trace'[i].tests : t.ate_circle
             /\ \A j \in (i + 1)..Len(trace') : \A u \in trace'[j].tests : ~u.ate_circle)
            => /\ trace'[i].entity_id \in DOMAIN circle'
               /\ trace'[i].entity_id \in DOMAIN entity'
       /\ \A i, j \in 1..Len(trace') :
            \A t \in trace'[i].tests : \A u \in trace'[j].tests :
              ~(/\ t.ate_circle /\ t.other = trace'[j].entity_id
                /\ u.ate_circle /\ u.other = trace'[i].entity_id)]_vars

\* C34 witness: of two circles the one that acted first was absorbed by the one
\* that acted second, which is the only circle left
LastAbsorberRemains ==
  /\ ticks = 1
  /\ Len(trace) = 2
  /\ ~trace[1].skipped
  /\ trace[1].entity_id \notin DOMAIN circle
  /\ \E t \in trace[2].tests : t.ate_circle /\ t.other = trace[1].entity_id
  /\ DOMAIN circle = {trace[2].entity_id}

\* the entity row e lies within [radius(mass), world_size - radius(mass)] on both axes
WithinBounds(e, world_size) ==
  /\ mass_to_radius(e.mass) <= e.position.x
  /\ e.position.x <= world_size * Q - mass_to_radius(e.mass)
  /\ mass_to_radius(e.mass) <= e.position.y
  /\ e.position.y <= world_size * Q - mass_to_radius(e.mass)

SEND_UPDATES_PER_SEC == 20

\* the DbConnections one run of the client builds at most
MaxConnections == 2
\* the value of get_ticks_msec() up to which frames are followed
MaxClock == 100
\* the update_player_input calls that are followed
MaxSends == 3

LocalIdentity == 1

\* the time between two frames in ms: a frame at 60 fps, and a slow frame
FrameTimes == {16, 50}

\* CONNECTION.set(Arc::new(conn)), the result dropped: a set OnceLock keeps its value
set_connection(conn) == CONNECTION' = IF CONNECTION = 0 THEN conn ELSE CONNECTION

\* CONNECTION.get().cloned(): 0 stands for None
get_connection == CONNECTION

\* CONNECTION.get().is_some()
is_connected == CONNECTION # 0

\* the body of clear_connection holds comments only
clear_connection == CONNECTION' = CONNECTION

\* GameManager::ready: build a DbConnection and store it
GameManager_ready ==
  /\ ~in_tree
  /\ Len(connections) < MaxConnections
  /\ in_tree' = TRUE
  /\ connections' = Append(connections, TRUE)
  /\ set_connection(Len(connections) + 1)
  /\ UNCHANGED <<ticks_msec, last_movement_send_timestamp, sends>>
  /\ UNCHANGED <<tables, ticks, result, trace>>

\* fn disconnect of game_manager.rs: close the stored connection, if there is one,
\* then clear_connection()
GameManager_disconnect ==
  /\ IF get_connection # 0
     THEN connections' = [connections EXCEPT ![get_connection] = FALSE]
     ELSE UNCHANGED connections
  /\ clear_connection

\* GameManager::exit_tree
GameManager_exit_tree ==
  /\ in_tree
  /\ in_tree' = FALSE
  /\ GameManager_disconnect
  /\ UNCHANGED <<ticks_msec, last_movement_send_timestamp, sends>>
  /\ UNCHANGED <<tables, ticks, result, trace>>

\* the engine clock between two frames
Frame(dt) ==
  /\ ticks_msec + dt <= MaxClock
  /\ ticks_msec' = ticks_msec + dt
  /\ UNCHANGED <<CONNECTION, connections, in_tree, last_movement_send_timestamp, sends>>
  /\ UNCHANGED <<tables, ticks, result, trace>>

\* self.is_local_player()
is_local_player == LocalIdentity \in DOMAIN player

\* self.number_of_owned_circles()
number_of_owned_circles == Cardinality(CirclesOf(player[LocalIdentity].player_id))

\* time - self.last_movement_send_timestamp > SEND_UPDATES_FREQUENCY, with time the
\* value of get_ticks_msec() and SEND_UPDATES_FREQUENCY = 1.0 / SEND_UPDATES_PER_SEC
ThrottleOpen(time) == (time - last_movement_send_timestamp) * SEND_UPDATES_PER_SEC > 1

\* PlayerController::process of the local player, the mouse giving direction
PlayerController_process(direction) ==
  IF ~is_local_player \/ number_of_owned_circles = 0
  THEN UNCHANGED vars
  ELSE IF ThrottleOpen(ticks_msec)
  THEN /\ Len(sends) < MaxSends
       /\ last_movement_send_timestamp' = ticks_msec
       /\ IF get_connection # 0 /\ connections[get_connection]
          THEN /\ sends' = Append(sends, ticks_msec)
               /\ update_player_input(LocalIdentity, direction)
          ELSE UNCHANGED <<sends, tables, ticks, result, trace>>
       /\ UNCHANGED <<CONNECTION, connections, in_tree, ticks_msec>>
  ELSE UNCHANGED vars

\* the server runs connect for the identity of a connection that was opened
client_connected ==
  /\ \E c \in DOMAIN connections : connections[c]
  /\ LocalIdentity \notin DOMAIN player
  /\ connect(LocalIdentity)
  /\ UNCHANGED client

\* handle_subscription_applied: the subscription opened by handle_connect on the
\* stored connection is applied, and the client enters the game
handle_subscription_applied ==
  /\ get_connection # 0 /\ connections[get_connection]
  /\ LocalIdentity \in DOMAIN player
  /\ CirclesOf(player[LocalIdentity].player_id) = {}
  /\ enter_game(LocalIdentity, "3Blave")
  /\ UNCHANGED client

\* the server runs disconnect for the identity once its connections are closed
client_disconnected ==
  /\ \A c \in DOMAIN connections : ~connections[c]
  /\ LocalIdentity \in DOMAIN player
  /\ disconnect(LocalIdentity)
  /\ UNCHANGED client

\* the module has been published (init has run) and the client has not started
InitClient ==
  /\ ClientInit
  /\ config = Put(Empty, 0, [world_size |-> WORLD_SIZE])
  /\ spawn_food_timer = {500}
  /\ move_all_players_timer = {50}
  /\ entity = Empty
  /\ entity_seq = 0
  /\ circle = Empty
  /\ food = {}
  /\ player = Empty
  /\ logged_out_player = Empty
  /\ player_seq = 0
  /\ ticks = 0
  /\ result = "ok"
  /\ trace = <<>>

NextClient ==
  \/ GameManager_ready
  \/ GameManager_exit_tree
  \/ \E dt \in FrameTimes : Frame(dt)
  \/ \E direction \in InputVectors : PlayerController_process(direction)
  \/ client_connected
  \/ handle_subscription_applied
  \/ client_disconnected

SpecClient == InitClient /\ [][NextClient]_vars

\* C36: any two consecutive update_player_input calls of the local
\* PlayerController are at least 1/20 s = 50 ms of get_ticks_msec() apart
SendsFiftyApart ==
  \A i \in 2..Len(sends) :
    (sends[i] - sends[i - 1]) * SEND_UPDATES_PER_SEC >= 1000

\* C37: after the client's disconnect() is_connected() is false and
\* get_connection() is None, and a set_connection with a new connection makes
\* get_connection() return that connection
ConnectionCleared ==
  [][/\ GameManager_exit_tree => (~is_connected' /\ get_connection' = 0)
     /\ GameManager_ready => get_connection' = Len(connections')]_vars

====
